---- MODULE Spec2Model ----
(***************************************************************************)
(* Webhook ingestion service: HMAC-verified, idempotent POST /webhook in   *)
(* front of a SQLite table `messages`, with GET /messages and GET /stats   *)
(* reading the same table.                                                 *)
(*                                                                         *)
(* The specifications:                                                     *)
(*   Spec      : the HTTP handlers of app/main.py, several requests in     *)
(*               flight, interleaved at the granularity of the SQL         *)
(*               statements of app/storage.py (each statement is atomic,   *)
(*               SQLite's write lock serialises writers).                  *)
(*   StoreSpec : the functions of app/storage.py called one after the      *)
(*               other by a single caller, over a richer set of messages   *)
(*               and query arguments.                                      *)
(*   FairSpec  : Spec with the fairness the server's scheduling gives.     *)
(*   FaultSpec : Spec on storage whose statements can raise sqlite3.Error. *)
(*   StatsSpec : get_stats on tables with more senders than the top list   *)
(*               has places.                                               *)
(***************************************************************************)
EXTENDS Integers, Sequences, FiniteSets, TLC

(***************************************************************************)
(* Bounds of the model.                                                    *)
(***************************************************************************)
\* HTTP requests in flight at the same time.
MaxReq == 2
\* Largest value of the wall clock (datetime.now); the clock saturates there.
MaxNow == 1
\* Largest `limit` and `offset` a caller of list_messages passes.
MaxLimit == 3
MaxOffset == 2
\* Distinct senders in the tables get_stats is run on (StatsSpec).
MaxSenders == 11

(***************************************************************************)
(* Program constants.                                                      *)
(***************************************************************************)
\* Field(None, max_length=4096)
MaxTextLen == 4096

(***************************************************************************)
(* Values.  message_id and ts are strings that SQLite compares bytewise;   *)
(* from, to and text are sequences of one-character strings so that the    *)
(* pattern ^\+\d+$ and LIKE can look at their characters.                  *)
(***************************************************************************)
\* Python None / SQL NULL / a JSON field that is absent, for the two kinds.
NoneS == "<None>"
NoneT == <<"<None>">>
MissingS == "<missing>"
MissingT == <<"<missing>">>
\* A JSON value that is not a string (a number, say).
NonStrS == "<int>"
NonStrT == <<"<int>">>

Digits == {"0", "1", "2", "3", "4", "5", "6", "7", "8", "9"}

\* Every string the model compares with < or >=, in the byte order of
\* SQLite's BINARY collation (memcmp).
StrOrd ==
  << "", "2024-01-01T00:00:00Z", "2024-01-01T05:00:00+05:00",
     "2024-01-02T00:00:00Z", "m1", "m2", "m3", "yesterday" >>

RankOf == [s \in {StrOrd[i] : i \in 1..Len(StrOrd)} |-> CHOOSE i \in 1..Len(StrOrd) : StrOrd[i] = s]

Rank(s) == RankOf[s]

\* a <= b for TEXT values
StrLeq(a, b) == Rank(a) <= Rank(b)

\* datetime.fromisoformat(v.replace("Z", "+00:00")) succeeds
IsIsoFormat(v) ==
  v \in {"2024-01-01T00:00:00Z", "2024-01-01T05:00:00+05:00", "2024-01-02T00:00:00Z"}

\* SQLite's LOWER() and LIKE fold the ASCII letters only.
LowerC(c) ==
  CASE c = "H" -> "h"
    [] c = "I" -> "i"
    [] OTHER -> c

Lower(s) == [i \in 1..Len(s) |-> LowerC(s[i])]

(***************************************************************************)
(* Payload Validator: WebhookPayload (app/main.py).                        *)
(* A request body is [json, message_id, from, to, ts, text]: json is FALSE *)
(* when the bytes are not a JSON object, a field is Missing* when the      *)
(* object has no such key and NonStr* when its value is not a string.      *)
(***************************************************************************)
EmptyBody ==
  [json |-> FALSE, message_id |-> MissingS, from |-> MissingT, to |-> MissingT,
   ts |-> MissingS, text |-> MissingT]

\* pattern=r"^\+\d+$"
MatchesMsisdn(s) ==
  /\ Len(s) >= 2
  /\ s[1] = "+"
  /\ \A i \in 2..Len(s) : s[i] \in Digits

\* message_id: str = Field(..., min_length=1)
ValidMessageId(v) == v \notin {MissingS, NonStrS, NoneS} /\ v # ""

\* from_msisdn / to: str = Field(..., pattern=...)
ValidMsisdn(v) == v \notin {MissingT, NonStrT, NoneT} /\ MatchesMsisdn(v)

\* ts: str, then validate_ts: the value is parsed and returned as it came
ValidTs(v) == v \notin {MissingS, NonStrS, NoneS} /\ IsIsoFormat(v)

validate_ts(v) == v

\* text: Optional[str] = Field(None, max_length=4096)
ValidText(v) == v \in {MissingT, NoneT} \/ (v # NonStrT /\ Len(v) <= MaxTextLen)

\* WebhookPayload.model_validate_json(raw_body) does not raise
ValidPayload(b) ==
  /\ b.json
  /\ ValidMessageId(b.message_id)
  /\ ValidMsisdn(b.from)
  /\ ValidMsisdn(b.to)
  /\ ValidTs(b.ts)
  /\ ValidText(b.text)

\* The message dict the handler builds from the payload and the clock.
Message(b, t) ==
  [message_id |-> b.message_id,
   from_msisdn |-> b.from,
   to_msisdn |-> b.to,
   ts |-> validate_ts(b.ts),
   text |-> IF b.text = MissingT THEN NoneT ELSE b.text,
   created_at |-> t]

(***************************************************************************)
(* Signature Verifier (app/main.py, webhook, step 2).                      *)
(* HMAC-SHA256 is idealised as collision free: the hex digest of a body    *)
(* under a key is the pair <<key, body>>.  A header is absent, or a string *)
(* that is empty, a hex digest, or holds a non-ASCII character.            *)
(***************************************************************************)
WEBHOOK_SECRET == "secret"

hexdigest(key, body) == <<key, body>>

HeaderAbsent == [present |-> FALSE, ascii |-> TRUE, digest |-> <<>>]
HeaderEmpty == [present |-> TRUE, ascii |-> TRUE, digest |-> <<>>]
HeaderNonAscii == [present |-> TRUE, ascii |-> FALSE, digest |-> <<>>]
HeaderHex(key, body) == [present |-> TRUE, ascii |-> TRUE, digest |-> hexdigest(key, body)]

\* `not signature_header`: None or the empty string
HeaderFalsy(h) == ~h.present \/ (h.ascii /\ h.digest = <<>>)

\* hmac.compare_digest(a, b) on str raises TypeError unless both are ASCII
CompareDigestRaises(h) == ~h.ascii

compare_digest(h, expected) == h.digest = expected

\* "ok", "reject" (401) or "raise" (the TypeError leaves the handler)
SignatureOutcome(h, body) ==
  IF HeaderFalsy(h) THEN "reject"
  ELSE IF CompareDigestRaises(h) THEN "raise"
  ELSE IF compare_digest(h, hexdigest(WEBHOOK_SECRET, body)) THEN "ok"
  ELSE "reject"

(***************************************************************************)
(* Message Store: the SQL of app/storage.py over the table `messages`,     *)
(* a sequence of rows in insertion (rowid) order.                          *)
(***************************************************************************)
\* PRIMARY KEY (message_id): the INSERT raises IntegrityError
HasId(rs, id) == \E i \in 1..Len(rs) : rs[i].message_id = id

RowOf(rs, id) == rs[CHOOSE i \in 1..Len(rs) : rs[i].message_id = id]

\* SQLite's LIKE without ESCAPE: % is any run of characters, _ any one.
RECURSIVE LikeMatch(_, _)
LikeMatch(p, t) ==
  IF p = <<>> THEN t = <<>>
  ELSE IF Head(p) = "%"
    THEN LikeMatch(Tail(p), t) \/ (t # <<>> /\ LikeMatch(p, Tail(t)))
  ELSE /\ t # <<>>
       /\ (Head(p) = "_" \/ LowerC(Head(p)) = LowerC(Head(t)))
       /\ LikeMatch(Tail(p), Tail(t))

\* from_msisdn = ?            (if from_msisdn is not None)
FromCond(row, from) == from # NoneT => row.from_msisdn = from

\* ts >= ?                    (if since)
SinceCond(row, since) == since \notin {NoneS, ""} => StrLeq(since, row.ts)

\* text IS NOT NULL AND LOWER(text) LIKE LOWER('%q%')    (if q)
TextCond(row, q) ==
  q \notin {NoneT, <<>>} =>
    /\ row.text # NoneT
    /\ LikeMatch(Lower(<<"%">> \o q \o <<"%">>), Lower(row.text))

\* The WHERE clause; a is [limit, offset, from, since, q].
Where(row, a) == FromCond(row, a.from) /\ SinceCond(row, a.since) /\ TextCond(row, a.q)

Matching(rs, a) ==
  LET Test(row) == Where(row, a)
  IN SelectSeq(rs, Test)

\* SELECT COUNT(*) FROM messages {where_clause}
CountQuery(rs, a) == Len(Matching(rs, a))

\* ORDER BY ts ASC, message_id ASC
RowBefore(x, y) ==
  \/ Rank(x.ts) < Rank(y.ts)
  \/ (x.ts = y.ts /\ Rank(x.message_id) < Rank(y.message_id))

\* Faulty variant: no ORDER BY: the rows come in rowid order
OrderByRowid(rs) == rs

OrderBy(rs) ==
  LET S == {rs[i] : i \in 1..Len(rs)}
  IN [i \in 1..Cardinality(S) |->
        CHOOSE x \in S : Cardinality({y \in S : RowBefore(y, x)}) = i - 1]

\* Faulty variant: the page runs one row too far
LimitOffsetInclusive(s, limit, offset) ==
  SubSeq(s, offset + 1, IF offset + limit + 1 < Len(s) THEN offset + limit + 1 ELSE Len(s))

\* LIMIT ? OFFSET ?
LimitOffset(s, limit, offset) ==
  SubSeq(s, offset + 1, IF offset + limit < Len(s) THEN offset + limit ELSE Len(s))

\* SELECT ... {where_clause} ORDER BY ts ASC, message_id ASC LIMIT ? OFFSET ?
DataQuery(rs, a) == LimitOffset(OrderBy(Matching(rs, a)), a.limit, a.offset)

\* list_messages when the table does not change between its two statements
list_messages(rs, a) == [data |-> DataQuery(rs, a), total |-> CountQuery(rs, a)]

\* Faulty variant: INSERT OR REPLACE: the stored row is overwritten
insert_or_replace(rs, m) ==
  IF HasId(rs, m.message_id)
    THEN [rows |-> [i \in 1..Len(rs) |->
                      IF rs[i].message_id = m.message_id THEN m ELSE rs[i]],
          created |-> FALSE]
    ELSE [rows |-> Append(rs, m), created |-> TRUE]

\* insert_message by a single caller: INSERT, commit, True / IntegrityError, False
insert_message(rs, m) ==
  IF HasId(rs, m.message_id)
    THEN [rows |-> rs, created |-> FALSE]
    ELSE [rows |-> Append(rs, m), created |-> TRUE]

\* LIMIT 10 of the top-senders query
TopN == 10

\* SELECT COUNT(*) FROM messages
TotalMessages(rs) == Len(rs)

Senders(rs) == {rs[i].from_msisdn : i \in 1..Len(rs)}

\* SELECT COUNT(DISTINCT from_msisdn) FROM messages
SendersCount(rs) == Cardinality(Senders(rs))

\* SELECT from_msisdn, COUNT(*) ... GROUP BY from_msisdn
SenderCounts(rs) ==
  {[from |-> f, count |-> Cardinality({i \in 1..Len(rs) : rs[i].from_msisdn = f})] :
     f \in Senders(rs)}

\* Byte order of the characters of an msisdn.
CharOrd == <<"+", "0", "1", "2", "3", "4", "5", "6", "7", "8", "9">>

CharRank(c) == CHOOSE i \in 1..Len(CharOrd) : CharOrd[i] = c

\* a < b for two msisdns, as TEXT
RECURSIVE TextLess(_, _)
TextLess(a, b) ==
  IF b = <<>> THEN FALSE
  ELSE IF a = <<>> THEN TRUE
  ELSE IF Head(a) = Head(b) THEN TextLess(Tail(a), Tail(b))
  ELSE CharRank(Head(a)) < CharRank(Head(b))

\* The groups G in the order `before` (a function on pairs of groups): every
\* group is preceded by exactly the groups before it; cut to the first TopN.
SortedGroups(G, before) ==
  LET n == Cardinality(G)
      s == [i \in 1..n |-> CHOOSE x \in G : Cardinality({y \in G : before[y, x]}) = i - 1]
  IN SubSeq(s, 1, IF n < TopN THEN n ELSE TopN)

\* Faulty variant: senders with equal counts in the order of their first row
TopSendersByArrival(rs) ==
  LET G == SenderCounts(rs)
      First(f) == CHOOSE i \in 1..Len(rs) :
                    /\ rs[i].from_msisdn = f
                    /\ \A j \in 1..(i - 1) : rs[j].from_msisdn # f
  IN SortedGroups(G, [x \in G, y \in G |->
                        \/ x.count > y.count
                        \/ (x.count = y.count /\ First(x.from) < First(y.from))])

\* ORDER BY count DESC LIMIT 10.  The query names no order for equal counts;
\* SQLite runs GROUP BY through a b-tree on from_msisdn and the ORDER BY
\* sorter then gives senders with equal counts in descending from_msisdn,
\* whatever the order in which the rows were inserted.
TopSenders(rs) ==
  LET G == SenderCounts(rs)
  IN SortedGroups(G, [x \in G, y \in G |->
                        \/ x.count > y.count
                        \/ (x.count = y.count /\ TextLess(y.from, x.from))])

\* Faulty variant: the ts of the row inserted first
FirstInsertedTs(rs) == IF rs = <<>> THEN NoneS ELSE rs[1].ts

\* SELECT MIN(ts) FROM messages: NULL on an empty table
MinTs(rs) ==
  IF rs = <<>> THEN NoneS
  ELSE LET S == {rs[i].ts : i \in 1..Len(rs)}
       IN CHOOSE x \in S : \A y \in S : StrLeq(x, y)

\* Faulty variant: MAX(ts) over the messages that have a text
MaxTsWithText(rs) ==
  LET S == {rs[i].ts : i \in {k \in 1..Len(rs) : rs[k].text # NoneT}}
  IN IF S = {} THEN NoneS ELSE CHOOSE x \in S : \A y \in S : StrLeq(y, x)

\* SELECT MAX(ts) FROM messages
MaxTs(rs) ==
  IF rs = <<>> THEN NoneS
  ELSE LET S == {rs[i].ts : i \in 1..Len(rs)}
       IN CHOOSE x \in S : \A y \in S : StrLeq(y, x)

(***************************************************************************)
(* Inputs.                                                                 *)
(***************************************************************************)
T1 == "2024-01-01T00:00:00Z"
T2 == "2024-01-02T00:00:00Z"

Plus1 == <<"+", "1">>
Plus2 == <<"+", "2">>
Plus9 == <<"+", "9">>

TxtHi == <<"H", "i">>
TxtUnder == <<"h", "_">>
TxtLong == [i \in 1..(MaxTextLen + 1) |-> "x"]

Body(id, from, to, ts, text) ==
  [json |-> TRUE, message_id |-> id, from |-> from, to |-> to, ts |-> ts, text |-> text]

\* Valid deliveries to POST /webhook: m1 twice with different fields (a
\* retry whose text changed), and m2 with the ts of the first m1.
B1 == Body("m1", Plus1, Plus9, T1, TxtHi)
B1Retry == Body("m1", Plus2, Plus9, T2, NoneT)
B2 == Body("m2", Plus2, Plus9, T1, TxtUnder)

ValidBodies == {B1, B1Retry, B2}

\* Bodies the validator must refuse, one defect each.
InvalidBodies ==
  { EmptyBody,
    [B1 EXCEPT !.message_id = MissingS],
    [B1 EXCEPT !.message_id = ""],
    [B1 EXCEPT !.from = <<"1", "2">>],
    [B1 EXCEPT !.to = <<"+", "1", "a">>],
    [B1 EXCEPT !.ts = "yesterday"],
    [B1 EXCEPT !.ts = NonStrS],
    [B1 EXCEPT !.text = TxtLong] }

WebhookBodies == ValidBodies \cup InvalidBodies

\* X-Signature values that are not the digest of the body under the secret.
BadHeaders(b) ==
  { HeaderAbsent, HeaderEmpty, HeaderNonAscii,
    HeaderHex("guess", b),
    HeaderHex(WEBHOOK_SECRET, IF b = B2 THEN B1 ELSE B2) }

\* The deliveries: every body correctly signed, a valid body under every
\* bad header, and a body that is both wrongly signed and malformed.
WebhookInputs ==
  {[body |-> b, header |-> HeaderHex(WEBHOOK_SECRET, b)] : b \in WebhookBodies}
  \cup {[body |-> B1, header |-> h] : h \in BadHeaders(B1)}
  \cup {[body |-> EmptyBody, header |-> h] : h \in {HeaderHex("guess", EmptyBody), HeaderNonAscii}}

(***************************************************************************)
(* State.                                                                  *)
(***************************************************************************)
VARIABLES
  schema,   \* the table `messages` exists
  rows,     \* the committed rows of `messages`, in insertion order
  now,      \* the wall clock read by datetime.now(timezone.utc)
  writer,   \* the request whose connection holds SQLite's write lock, or 0
  req,      \* the POST /webhook requests in flight, by slot
  rd,       \* the GET request (/messages, /stats, /health/ready) in flight
  call,     \* StoreSpec: the storage call that has just returned
  conns     \* the sqlite3 connections that are open

vars == <<schema, rows, now, writer, req, rd, call, conns>>

Reqs == 1..MaxReq
NoWriter == 0

IdleReq ==
  [pc |-> "idle", body |-> EmptyBody, header |-> HeaderAbsent,
   created_at |-> 0, created |-> FALSE, status |-> 0, event |-> "none",
   http |-> <<>>]

NoArgs == [limit |-> 0, offset |-> 0, from |-> NoneT, since |-> NoneS, q |-> NoneT]

NoStats ==
  [total_messages |-> 0, senders_count |-> 0, messages_per_sender |-> <<>>,
   first_message_ts |-> NoneS, last_message_ts |-> NoneS]

IdleReader ==
  [op |-> "idle", pc |-> "idle", args |-> NoArgs, total |-> 0, data |-> <<>>,
   stats |-> NoStats, status |-> 0, http |-> <<>>]

NoMessage == Message(EmptyBody, 0)

NoCall ==
  [op |-> "none", msg |-> NoMessage, created |-> FALSE, args |-> NoArgs,
   data |-> <<>>, total |-> 0, stats |-> NoStats]

\* Requests being served.
InFlight ==
  Cardinality({r \in Reqs : req[r].pc # "idle"}) + (IF rd.op = "idle" THEN 0 ELSE 1)

\* The database file before the first start of the process.
Init ==
  /\ schema = FALSE
  /\ rows = <<>>
  /\ now = 0
  /\ writer = NoWriter
  /\ req = [r \in Reqs |-> IdleReq]
  /\ rd = IdleReader
  /\ call = NoCall
  /\ conns = 0

(***************************************************************************)
(* init_db (models.py), run by lifespan at every start of the process.     *)
(***************************************************************************)
\* Faulty variant: DROP TABLE IF EXISTS, then CREATE TABLE
drop_and_create_table(s, rs) == [schema |-> TRUE, rows |-> <<>>]

\* CREATE TABLE IF NOT EXISTS messages (...); conn.commit()
create_table_if_not_exists(s, rs) == [schema |-> TRUE, rows |-> IF s THEN rs ELSE <<>>]

\* Faulty variant: the table is dropped and created again at every start
init_db_recreate ==
  /\ schema' = TRUE
  /\ rows' = <<>>
  /\ UNCHANGED <<now, writer, req, rd, call, conns>>

\* init_db: connect, create, commit, close (finally)
init_db ==
  /\ LET db == create_table_if_not_exists(schema, rows)
     IN schema' = db.schema /\ rows' = db.rows
  /\ UNCHANGED <<now, writer, req, rd, call, conns>>

(***************************************************************************)
(* Connections and counters.                                               *)
(***************************************************************************)
\* Faulty variant: conn.close() after the try statement, skipped when the
\* body raised
close_unless_raised(n, raised) == IF raised THEN n ELSE n - 1

\* finally: conn.close() -- runs whether the body returned or raised
finally_close(n, raised) == n - 1

\* One call of metrics.increment_http_requests(path, status), appended to
\* the calls made for this request.
increment_http_requests(http, path, status) ==
  Append(http, [path |-> path, status |-> status])

\* request_middleware after `response = await call_next(request)`: the
\* counter is incremented with the request's path and the response's status.
\* When the handler raised, call_next raises and the line is not reached.
request_middleware(http, path, status) == increment_http_requests(http, path, status)

(***************************************************************************)
(* POST /webhook (app/main.py, webhook).                                   *)
(***************************************************************************)
\* A delivery arrives: raw_body = await request.body(), the header is read.
Arrive(r) ==
  /\ schema
  /\ req[r].pc = "idle"
  /\ InFlight < MaxReq
  /\ \E in \in WebhookInputs :
       req' = [req EXCEPT ![r] =
                 [IdleReq EXCEPT !.pc = "Received", !.body = in.body, !.header = in.header]]
  /\ UNCHANGED <<schema, rows, now, writer, rd, call, conns>>

\* Step 2: the signature check; on a falsy or different header the event is
\* logged, the counter incremented and 401 returned through the middleware.
CheckSignature(r) ==
  /\ req[r].pc = "Received"
  /\ LET o == SignatureOutcome(req[r].header, req[r].body)
     IN req' = [req EXCEPT ![r] =
          CASE o = "ok" -> [@ EXCEPT !.pc = "SignatureChecked"]
            [] o = "reject" ->
                 [@ EXCEPT !.pc = "SignatureRejected", !.status = 401,
                           !.event = "invalid_signature",
                           !.http = request_middleware(
                                      increment_http_requests(@, "invalid_signature", 401),
                                      "/webhook", 401)]
            [] OTHER -> [@ EXCEPT !.pc = "Failed", !.status = 500]]
  /\ UNCHANGED <<schema, rows, now, writer, rd, call, conns>>

\* The status of the response when the handler re-raises the pydantic
\* ValidationError: FastAPI maps RequestValidationError to 422, and this is
\* not one, so the server's catch-all answers 500.
ValidationErrorStatus == 500

\* Steps 3 and 4: the payload is validated and the message built, its
\* created_at read from the clock, which may have advanced.  On a failure
\* the event is logged with status 422, the counter incremented and the
\* exception raised again.
Validate(r) ==
  /\ req[r].pc = "SignatureChecked"
  /\ IF ValidPayload(req[r].body)
       THEN \E t \in {now, IF now < MaxNow THEN now + 1 ELSE now} :
              /\ now' = t
              /\ req' = [req EXCEPT ![r] = [@ EXCEPT !.pc = "Validated", !.created_at = t]]
       ELSE /\ req' = [req EXCEPT ![r] =
                        [@ EXCEPT !.pc = "ValidationRejected",
                                  !.status = ValidationErrorStatus,
                                  !.event = "validation_error",
                                  !.http = increment_http_requests(@, "validation_error", 422)]]
            /\ now' = now
  /\ UNCHANGED <<schema, rows, writer, rd, call, conns>>

\* Faulty variant: no write lock: the primary key is checked without it
WriteLockIgnored == TRUE

\* SQLite lets one connection write at a time: the INSERT waits (the busy
\* handler) while another connection holds the write lock.
WriteLockFree == writer = NoWriter

\* Step 5, _get_connection() and cursor.execute(INSERT ...): under the write
\* lock the primary key is checked against the committed rows.  A duplicate
\* raises IntegrityError, insert_message returns False and closes the
\* connection.
InsertExecute(r) ==
  /\ req[r].pc = "Validated"
  /\ WriteLockFree
  /\ IF HasId(rows, req[r].body.message_id)
       THEN /\ req' = [req EXCEPT ![r] = [@ EXCEPT !.pc = "Persisted", !.created = FALSE]]
            /\ writer' = writer
            /\ conns' = finally_close(conns + 1, TRUE)
       ELSE /\ req' = [req EXCEPT ![r] = [@ EXCEPT !.pc = "Inserting"]]
            /\ writer' = r
            /\ conns' = conns + 1
  /\ UNCHANGED <<schema, rows, now, rd, call>>

\* conn.commit(); return True; conn.close()
Commit(r) ==
  /\ req[r].pc = "Inserting"
  /\ rows' = Append(rows, Message(req[r].body, req[r].created_at))
  /\ writer' = NoWriter
  /\ conns' = finally_close(conns, FALSE)
  /\ req' = [req EXCEPT ![r] = [@ EXCEPT !.pc = "Persisted", !.created = TRUE]]
  /\ UNCHANGED <<schema, now, rd, call>>

\* A storage fault in insert_message: the INSERT or the commit raises a
\* sqlite3.Error other than IntegrityError (disk I/O error, database is
\* locked).  The connection is closed, which rolls back and frees the write
\* lock; nothing in the handler catches the exception, so no event is
\* logged, no counter incremented and the server's catch-all answers 500.
InsertFault(r) ==
  /\ req[r].pc \in {"Validated", "Inserting"}
  /\ IF req[r].pc = "Validated"
       THEN /\ conns' = finally_close(conns + 1, TRUE)
            /\ writer' = writer
       ELSE /\ conns' = finally_close(conns, TRUE)
            /\ writer' = NoWriter
  /\ req' = [req EXCEPT ![r] = [@ EXCEPT !.pc = "Failed", !.status = 500]]
  /\ UNCHANGED <<schema, rows, now, rd, call>>

\* Faulty variant: a duplicate delivery is answered 409 Conflict
ConflictOnDuplicate(created) == IF created THEN 200 ELSE 409

\* return {"status": "ok"}: 200 whether created or not
SuccessStatus(created) == 200

\* Steps 6 and 7: the event is logged with the outcome, 200 {"status": "ok"}
\* returned through the middleware.
Respond(r) ==
  /\ req[r].pc = "Persisted"
  /\ LET status == SuccessStatus(req[r].created)
     IN req' = [req EXCEPT ![r] =
                  [@ EXCEPT !.pc = "Responded", !.status = status,
                            !.event = IF req[r].created THEN "created" ELSE "duplicate",
                            !.http = request_middleware(@, "/webhook", status)]]
  /\ UNCHANGED <<schema, rows, now, writer, rd, call, conns>>

Terminal == {"Responded", "SignatureRejected", "ValidationRejected", "Failed"}

\* The response has left; the slot serves the next request.
Finish(r) ==
  /\ req[r].pc \in Terminal
  /\ req' = [req EXCEPT ![r] = IdleReq]
  /\ UNCHANGED <<schema, rows, now, writer, rd, call, conns>>

Webhook(r) ==
  \/ Arrive(r)
  \/ CheckSignature(r)
  \/ Validate(r)
  \/ InsertExecute(r)
  \/ Commit(r)
  \/ Respond(r)
  \/ Finish(r)

(***************************************************************************)
(* GET /messages, GET /stats and GET /health/ready (app/main.py,           *)
(* app/storage.py).  Each SQL statement reads the rows committed when it   *)
(* runs; nothing ties the statements of one call to the same snapshot.     *)
(***************************************************************************)
\* The queries GET /messages is called with while deliveries are in flight.
HttpListArgs ==
  { [limit |-> MaxLimit, offset |-> 0, from |-> NoneT, since |-> NoneS, q |-> NoneT],
    [limit |-> 1, offset |-> 1, from |-> NoneT, since |-> T1, q |-> NoneT],
    [limit |-> MaxLimit, offset |-> 0, from |-> Plus2, since |-> NoneS, q |-> <<"H">>] }

\* get_messages calls list_messages, which opens its connection.
ListStart ==
  /\ schema
  /\ rd.op = "idle"
  /\ InFlight < MaxReq
  /\ \E a \in HttpListArgs :
       rd' = [IdleReader EXCEPT !.op = "list", !.pc = "count", !.args = a]
  /\ conns' = conns + 1
  /\ UNCHANGED <<schema, rows, now, writer, req, call>>

\* cursor.execute(count_query, params); total = cursor.fetchone()[0]
ListCount ==
  /\ rd.op = "list" /\ rd.pc = "count"
  /\ rd' = [rd EXCEPT !.pc = "data", !.total = CountQuery(rows, rd.args)]
  /\ UNCHANGED <<schema, rows, now, writer, req, call, conns>>

\* cursor.execute(data_query, params + [limit, offset]); rows =
\* cursor.fetchall(); the connection is closed and 200 returned.
ListData ==
  /\ rd.op = "list" /\ rd.pc = "data"
  /\ rd' = [rd EXCEPT !.pc = "done", !.data = DataQuery(rows, rd.args),
                      !.status = 200,
                      !.http = request_middleware(@, "/messages", 200)]
  /\ conns' = finally_close(conns, FALSE)
  /\ UNCHANGED <<schema, rows, now, writer, req, call>>

\* get_stats (main.py) calls storage.get_stats, which opens its connection.
StatsStart ==
  /\ schema
  /\ rd.op = "idle"
  /\ InFlight < MaxReq
  /\ rd' = [IdleReader EXCEPT !.op = "stats", !.pc = "total"]
  /\ conns' = conns + 1
  /\ UNCHANGED <<schema, rows, now, writer, req, call>>

\* The five statements of get_stats, one at a time; after the last one the
\* connection is closed and 200 returned.
StatsStep ==
  /\ rd.op = "stats"
  /\ \/ /\ rd.pc = "total"
        /\ rd' = [rd EXCEPT !.pc = "senders",
                            !.stats.total_messages = TotalMessages(rows)]
        /\ conns' = conns
     \/ /\ rd.pc = "senders"
        /\ rd' = [rd EXCEPT !.pc = "top",
                            !.stats.senders_count = SendersCount(rows)]
        /\ conns' = conns
     \/ /\ rd.pc = "top"
        /\ rd' = [rd EXCEPT !.pc = "first",
                            !.stats.messages_per_sender = TopSenders(rows)]
        /\ conns' = conns
     \/ /\ rd.pc = "first"
        /\ rd' = [rd EXCEPT !.pc = "last", !.stats.first_message_ts = MinTs(rows)]
        /\ conns' = conns
     \/ /\ rd.pc = "last"
        /\ rd' = [rd EXCEPT !.pc = "done", !.stats.last_message_ts = MaxTs(rows),
                            !.status = 200,
                            !.http = request_middleware(@, "/stats", 200)]
        /\ conns' = finally_close(conns, FALSE)
  /\ UNCHANGED <<schema, rows, now, writer, req, call>>

\* GET /health/ready arrives.
ReadyStart ==
  /\ schema
  /\ rd.op = "idle"
  /\ InFlight < MaxReq
  /\ rd' = [IdleReader EXCEPT !.op = "ready", !.pc = "connect"]
  /\ UNCHANGED <<schema, rows, now, writer, req, call, conns>>

\* health_ready: conn = sqlite3.connect(db_path); conn.close(); 200
ReadyCheck ==
  /\ rd.op = "ready" /\ rd.pc = "connect"
  /\ rd' = [rd EXCEPT !.pc = "done", !.status = 200,
                      !.http = request_middleware(@, "/health/ready", 200)]
  /\ conns' = (conns + 1) - 1
  /\ UNCHANGED <<schema, rows, now, writer, req, call>>

\* A storage fault in a read: a statement of list_messages or get_stats
\* raises sqlite3.Error, the connection is closed (finally) and the
\* exception leaves the handler: 500.  In health_ready sqlite3.connect
\* raises before a connection exists; the handler catches it and returns 503.
ReaderFault ==
  /\ rd.op # "idle" /\ rd.pc # "done"
  /\ IF rd.op = "ready"
       THEN /\ rd' = [rd EXCEPT !.pc = "done", !.status = 503,
                                !.http = request_middleware(@, "/health/ready", 503)]
            /\ conns' = conns
       ELSE /\ rd' = [rd EXCEPT !.pc = "done", !.status = 500]
            /\ conns' = finally_close(conns, TRUE)
  /\ UNCHANGED <<schema, rows, now, writer, req, call>>

\* The response has left.
ReaderFinish ==
  /\ rd.pc = "done"
  /\ rd' = IdleReader
  /\ UNCHANGED <<schema, rows, now, writer, req, call, conns>>

Reader ==
  \/ ListStart
  \/ ListCount
  \/ ListData
  \/ StatsStart
  \/ StatsStep
  \/ ReadyStart
  \/ ReadyCheck
  \/ ReaderFinish

\* The service while its storage works.
Next ==
  \/ init_db
  \/ \E r \in Reqs : Webhook(r)
  \/ Reader

Spec == Init /\ [][Next]_vars

\* The service on storage that can fail.
FaultNext ==
  \/ Next
  \/ \E r \in Reqs : InsertFault(r)
  \/ ReaderFault

FaultSpec == Init /\ [][FaultNext]_vars

(***************************************************************************)
(* StoreSpec: the functions of app/storage.py and models.py called one at  *)
(* a time; `call` holds the call that has just returned and its result.    *)
(***************************************************************************)
Ids == {"m1", "m2", "m3"}

\* The message dicts insert_message is called with.
StoreMessages ==
  {Message(Body(id, f, Plus9, ts, txt), 0) :
     id \in Ids, f \in {Plus1, Plus2}, ts \in {T1, T2}, txt \in {NoneT, TxtHi}}

\* The arguments list_messages is called with.
ListArgs ==
  [limit : 1..MaxLimit, offset : 0..MaxOffset, from : {NoneT, Plus1},
   since : {NoneS, T2}, q : {NoneT, <<>>, <<"I">>, <<"_">>}]

StoreInsert ==
  /\ schema
  /\ call.op = "none"
  /\ \E m \in StoreMessages :
       LET res == insert_message(rows, m)
       IN /\ rows' = res.rows
          /\ call' = [NoCall EXCEPT !.op = "insert", !.msg = m, !.created = res.created]
  /\ UNCHANGED <<schema, now, writer, req, rd, conns>>

\* init_db called by the single caller.
StoreInit ==
  /\ call.op = "none"
  /\ LET db == create_table_if_not_exists(schema, rows)
     IN schema' = db.schema /\ rows' = db.rows
  /\ call' = [NoCall EXCEPT !.op = "init"]
  /\ UNCHANGED <<now, writer, req, rd, conns>>

StoreList ==
  /\ schema
  /\ call.op = "none"
  /\ \E a \in ListArgs :
       LET res == list_messages(rows, a)
       IN call' = [NoCall EXCEPT !.op = "list", !.args = a, !.data = res.data,
                                 !.total = res.total]
  /\ UNCHANGED <<schema, rows, now, writer, req, rd, conns>>

\* get_stats when the table does not change between its five statements
get_stats(rs) ==
  [total_messages |-> TotalMessages(rs),
   senders_count |-> SendersCount(rs),
   messages_per_sender |-> TopSenders(rs),
   first_message_ts |-> MinTs(rs),
   last_message_ts |-> MaxTs(rs)]

StoreStats ==
  /\ schema
  /\ call.op = "none"
  /\ call' = [NoCall EXCEPT !.op = "stats", !.stats = get_stats(rows)]
  /\ UNCHANGED <<schema, rows, now, writer, req, rd, conns>>

\* The caller has taken the result.
StoreReturn ==
  /\ call.op # "none"
  /\ call' = NoCall
  /\ UNCHANGED <<schema, rows, now, writer, req, rd, conns>>

StoreNext ==
  \/ StoreInit
  \/ StoreInsert
  \/ StoreList
  \/ StoreStats
  \/ StoreReturn

StoreSpec == Init /\ [][StoreNext]_vars

(***************************************************************************)
(* StatsSpec: get_stats on tables that hold more senders than the top      *)
(* list has places.  The table of n senders and a subset S of them holds   *)
(* one message of each sender, then a second message of every sender in S. *)
(***************************************************************************)
SenderNo(k) == <<"+", CharOrd[(k \div 10) + 2], CharOrd[(k % 10) + 2]>>

StatsMessage(k, f) == Message(Body("s" \o ToString(k), SenderNo(f), Plus9, T1, NoneT), 0)

Ascending(S) ==
  [i \in 1..Cardinality(S) |-> CHOOSE x \in S : Cardinality({y \in S : y < x}) = i - 1]

StatsTable(n, S) ==
  [k \in 1..n |-> StatsMessage(k, k)]
    \o [i \in 1..Cardinality(S) |-> StatsMessage(n + i, Ascending(S)[i])]

StatsTables == UNION {{StatsTable(n, S) : S \in SUBSET (1..n)} : n \in 0..MaxSenders}

StatsInit ==
  /\ schema = TRUE
  /\ rows \in StatsTables
  /\ now = 0
  /\ writer = NoWriter
  /\ req = [r \in Reqs |-> IdleReq]
  /\ rd = IdleReader
  /\ call = NoCall
  /\ conns = 0

StatsNext ==
  \/ StoreStats
  \/ StoreReturn

StatsSpec == StatsInit /\ [][StatsNext]_vars

(***************************************************************************)
(* FairSpec: every request that can take its next step does take it.  The  *)
(* INSERT of a request is enabled whenever the write lock is free; SQLite's*)
(* busy handler retries it, so it is taken if it is enabled again and      *)
(* again (strong fairness).                                                *)
(***************************************************************************)
Fairness ==
  \A r \in Reqs :
    /\ WF_vars(CheckSignature(r))
    /\ WF_vars(Validate(r))
    /\ SF_vars(InsertExecute(r))
    /\ WF_vars(Commit(r))
    /\ WF_vars(Respond(r))

FairSpec == Init /\ [][Next]_vars /\ Fairness

(***************************************************************************)
(* Claims.                                                                 *)
(***************************************************************************)
Range(s) == {s[i] : i \in 1..Len(s)}

\* The insert call of request r returns in this step.
InsertReturns(r) == req[r].pc \in {"Validated", "Inserting"} /\ req'[r].pc = "Persisted"

Returned(r) == req[r].pc \in {"Persisted", "Responded"}

\* C2: concurrent inserts of one message_id.  The table never holds two
\* rows with the same message_id; of the requests in flight whose insert of
\* the same message_id has returned, at most one was told Created and the row
\* is stored; an insert never ends in an error; and the insert that returns
\* Created is the one that adds the row, every other one finds the id stored,
\* returns Duplicate and adds nothing.
C2_ExactlyOneCreated ==
  /\ [](\A i, j \in 1..Len(rows) : i # j => rows[i].message_id # rows[j].message_id)
  /\ [](\A r1, r2 \in Reqs :
          (r1 # r2 /\ Returned(r1) /\ Returned(r2)
             /\ req[r1].body.message_id = req[r2].body.message_id)
          => ~(req[r1].created /\ req[r2].created))
  /\ [](\A r \in Reqs : Returned(r) => HasId(rows, req[r].body.message_id))
  /\ [][\A r \in Reqs :
          /\ req[r].pc \in {"Validated", "Inserting"}
               => req'[r].pc \in {"Validated", "Inserting", "Persisted"}
          /\ InsertReturns(r) =>
               IF HasId(rows, req[r].body.message_id)
                 THEN ~req'[r].created /\ rows' = rows
                 ELSE /\ req'[r].created
                      /\ rows' = Append(rows, Message(req[r].body, req[r].created_at))]_vars

\* Two requests in flight delivered the same message_id; the insert of one
\* returned Created and the insert of the other Duplicate.
C2_Witness ==
  \E r1, r2 \in Reqs :
    /\ r1 # r2
    /\ req[r1].pc = "Persisted" /\ req[r2].pc = "Persisted"
    /\ req[r1].body.message_id = req[r2].body.message_id
    /\ req[r1].created /\ ~req[r2].created
    /\ Cardinality({i \in 1..Len(rows) : rows[i].message_id = req[r1].body.message_id}) = 1

CorrectlySigned(r) == req[r].header = HeaderHex(WEBHOOK_SECRET, req[r].body)

\* C3: a correctly signed, valid delivery is answered 200, created or
\* duplicate.  Such a request never ends in another state than Responded,
\* Responded always carries status 200, and every such request that has
\* been received does reach Responded with status 200.
C3_ValidDeliveryGets200 ==
  /\ [](\A r \in Reqs :
          /\ (req[r].pc \in Terminal /\ CorrectlySigned(r) /\ ValidPayload(req[r].body))
               => req[r].pc = "Responded"
          /\ req[r].pc = "Responded" => req[r].status = 200)
  /\ \A r \in Reqs :
       (req[r].pc = "Received" /\ CorrectlySigned(r) /\ ValidPayload(req[r].body))
         ~> (req[r].pc = "Responded" /\ req[r].status = 200)

\* A retried delivery (its message_id was stored, its insert returned
\* Duplicate) has been answered 200 while another request is in flight.
C3_Witness ==
  \E r1, r2 \in Reqs :
    /\ r1 # r2
    /\ req[r1].pc = "Responded" /\ ~req[r1].created /\ req[r1].status = 200
    /\ req[r2].pc \notin {"idle"} \cup Terminal

\* C4: a request whose X-Signature is absent, empty or not the digest of
\* the body ends in SignatureRejected with status 401, and no step of it
\* changes the table.
C4_BadSignatureGets401 ==
  /\ [](\A r \in Reqs :
          (req[r].pc \notin {"idle", "Received"} /\ ~CorrectlySigned(r))
            => (req[r].pc = "SignatureRejected" /\ req[r].status = 401))
  /\ [][\A r \in Reqs :
          (~CorrectlySigned(r) /\ req'[r] # req[r] /\ req[r].pc # "idle") => rows' = rows]_vars

\* C5: a correctly signed request whose payload fails validation is
\* answered 422, and no step of it changes the table.
C5_InvalidPayloadGets422 ==
  /\ [](\A r \in Reqs :
          (req[r].pc \notin {"idle", "Received", "SignatureChecked"}
             /\ CorrectlySigned(r) /\ ~ValidPayload(req[r].body))
            => (req[r].pc = "ValidationRejected" /\ req[r].status = 422))
  /\ [][\A r \in Reqs :
          (CorrectlySigned(r) /\ ~ValidPayload(req[r].body) /\ req'[r] # req[r]
             /\ req[r].pc # "idle") => rows' = rows]_vars

\* C8: the page of a list call holds no matching row that its total did
\* not count: read from the first row on, the page is no longer than total.
C8_PageCountedByTotal ==
  (rd.op = "list" /\ rd.pc = "done" /\ rd.args.offset = 0) => Len(rd.data) <= rd.total

\* C10: the table is append-only.  Every step of every operation keeps every
\* stored row, with all its fields, at its place.
C10_AppendOnly ==
  [][/\ Len(rows') >= Len(rows)
     /\ \A i \in 1..Len(rows) : rows'[i] = rows[i]]_vars

\* A delivery of a stored message_id with another text has been through its
\* insert and a list call has read the table.
C10_Witness ==
  /\ \E r \in Reqs :
       /\ req[r].pc = "Persisted" /\ ~req[r].created
       /\ RowOf(rows, req[r].body.message_id).text # Message(req[r].body, 0).text
  /\ rd.op = "list" /\ rd.pc = "done"

\* StoreSpec: insert_message returns in this step.
StoreInsertReturns == call.op = "none" /\ call'.op = "insert"

\* C1: an insert of a message_id that is stored returns Duplicate and leaves
\* the table, and so the row the first insert wrote, as it was, whatever the
\* fields of the second message; an insert of a message_id that is not stored
\* returns Created and stores the message as given.
C1_InsertIdempotent ==
  [][StoreInsertReturns =>
       IF HasId(rows, call'.msg.message_id)
         THEN /\ ~call'.created
              /\ rows' = rows
              /\ RowOf(rows', call'.msg.message_id) = RowOf(rows, call'.msg.message_id)
         ELSE /\ call'.created
              /\ Len(rows') = Len(rows) + 1
              /\ RowOf(rows', call'.msg.message_id) = call'.msg
              /\ \A i \in 1..Len(rows) : rows'[i] = rows[i]]_vars

\* The second insert of a message_id, with other fields than the stored row,
\* has returned Duplicate.
C1_Witness ==
  /\ call.op = "insert" /\ ~call.created
  /\ HasId(rows, call.msg.message_id)
  /\ RowOf(rows, call.msg.message_id).text # call.msg.text
  /\ RowOf(rows, call.msg.message_id).from_msisdn # call.msg.from_msisdn

\* Every order in which the rows of rs can have been inserted.
InsertionOrders(rs) ==
  LET n == Len(rs)
      P == {f \in [1..n -> 1..n] : \A i, j \in 1..n : i # j => f[i] # f[j]}
  IN {[i \in 1..n |-> rs[f[i]]] : f \in P}

\* x comes before y in the order (ts, message_id), both compared as strings
TsIdBefore(x, y) ==
  \/ Rank(x.ts) < Rank(y.ts)
  \/ (Rank(x.ts) = Rank(y.ts) /\ Rank(x.message_id) < Rank(y.message_id))

\* C6: the page list returns is ascending by (ts, message_id), and a table
\* holding the same rows inserted in any other order gives the same page.
C6_PageSorted ==
  call.op = "list" =>
    /\ \A i, j \in 1..Len(call.data) : i < j => TsIdBefore(call.data[i], call.data[j])
    /\ \A other \in InsertionOrders(rows) : DataQuery(other, call.args) = call.data

\* A page of two rows with the same ts, the one with the smaller message_id
\* first although it was inserted last.
C6_Witness ==
  /\ call.op = "list" /\ Len(call.data) >= 2
  /\ call.data[1].ts = call.data[2].ts
  /\ \E i, j \in 1..Len(rows) : i < j /\ rows[j] = call.data[1] /\ rows[i] = call.data[2]

\* text contains q, letters compared without case, every character of q
\* standing for itself
Contains(text, q) ==
  \E k \in 0..(Len(text) - Len(q)) :
    \A j \in 1..Len(q) : LowerC(text[k + j]) = LowerC(q[j])

\* The filters as the interface states them: from exact, ts >= since, text
\* not null and containing q.  An empty since or q counts as not supplied,
\* as list_messages takes it.
FiltersHold(row, a) ==
  /\ a.from # NoneT => row.from_msisdn = a.from
  /\ a.since \notin {NoneS, ""} => StrLeq(a.since, row.ts)
  /\ a.q \notin {NoneT, <<>>} => (row.text # NoneT /\ Contains(row.text, a.q))

\* C7: total is the number of stored messages for which the filters hold,
\* whatever limit and offset are, and with offset 0 and limit >= total the
\* page has total rows.
C7_TotalIsMatchCount ==
  call.op = "list" =>
    /\ call.total = Cardinality({i \in 1..Len(rows) : FiltersHold(rows[i], call.args)})
    /\ (call.args.offset = 0 /\ call.args.limit >= call.total) => Len(call.data) = call.total

\* C9: list matches a stored message exactly when every supplied filter holds
\* for it (seen on a page that starts at the first row and is long enough for
\* the whole table).
C9_MatchIffFiltersHold ==
  (call.op = "list" /\ call.args.offset = 0 /\ call.args.limit >= Len(rows)) =>
    \A i \in 1..Len(rows) :
      rows[i] \in Range(call.data) <=> FiltersHold(rows[i], call.args)

\* C11: called while no insert is in progress, stats returns the number of
\* stored rows as total_messages, the number of distinct senders as
\* senders_count, and as first/last timestamp a stored ts that no stored ts
\* is below/above; both are absent exactly when the table is empty.
C11_StatsValues ==
  call.op = "stats" =>
    LET st == call.stats
        n == Len(rows)
    IN /\ st.total_messages = n
       /\ st.senders_count = Cardinality({rows[i].from_msisdn : i \in 1..n})
       /\ (st.first_message_ts = NoneS) <=> (n = 0)
       /\ (st.last_message_ts = NoneS) <=> (n = 0)
       /\ n > 0 =>
            /\ \E i \in 1..n : rows[i].ts = st.first_message_ts
            /\ \E i \in 1..n : rows[i].ts = st.last_message_ts
            /\ \A i \in 1..n : /\ StrLeq(st.first_message_ts, rows[i].ts)
                               /\ StrLeq(rows[i].ts, st.last_message_ts)

\* stats has returned on a table of three rows from two senders whose
\* smallest ts is not the one of the row inserted first.
C11_Witness ==
  /\ call.op = "stats"
  /\ Len(rows) = 3
  /\ call.stats.senders_count = 2
  /\ call.stats.first_message_ts # rows[1].ts
  /\ call.stats.first_message_ts # call.stats.last_message_ts

Reverse(rs) == [i \in 1..Len(rs) |-> rs[Len(rs) + 1 - i]]

C13_ErrorsMappedAndReported ==
  \A r \in Reqs :
    /\ req[r].pc \in Terminal \ {"Responded"} =>
         (req[r].status \in 400..599 /\ req[r].event # "none")
    /\ (req[r].pc \in Terminal /\ req[r].status \in 200..299) => req[r].pc = "Responded"

\* The state of a request in the terms of the interface: while its insert
\* is between INSERT and commit the request is still Validated.
StateOf(pc) == IF pc = "Inserting" THEN "Validated" ELSE pc

\* The steps of the request state machine.
StateOrder ==
  { <<"idle", "Received">>,
    <<"Received", "SignatureChecked">>, <<"Received", "SignatureRejected">>,
    <<"SignatureChecked", "Validated">>, <<"SignatureChecked", "ValidationRejected">>,
    <<"Validated", "Persisted">>,
    <<"Persisted", "Responded">>,
    <<"Responded", "idle">>, <<"SignatureRejected", "idle">>,
    <<"ValidationRejected", "idle">> }

\* C14: a request changes state only along Received, SignatureChecked,
\* Validated, Persisted, Responded, with the exits SignatureRejected from
\* Received and ValidationRejected from SignatureChecked, after which the
\* request only ends; and a request with a wrong signature and a malformed
\* payload that has ended is in SignatureRejected with status 401.
C14_StateOrder ==
  /\ [][\A r \in Reqs :
          StateOf(req'[r].pc) # StateOf(req[r].pc)
            => <<StateOf(req[r].pc), StateOf(req'[r].pc)>> \in StateOrder]_vars
  /\ [](\A r \in Reqs :
          (req[r].pc \in Terminal /\ ~CorrectlySigned(r) /\ ~ValidPayload(req[r].body))
            => (req[r].pc = "SignatureRejected" /\ req[r].status = 401))

\* C15: of two stored messages the one inserted earlier has a created_at
\* (received_at) that is not above the one of the message inserted later.
C15_ReceivedAtMonotone ==
  \A i, j \in 1..Len(rows) : i < j => rows[i].created_at <= rows[j].created_at

\* The operations that are between opening their connection and closing it.
HoldingConnection ==
  Cardinality({r \in Reqs : req[r].pc = "Inserting"})
    + (IF rd.op \in {"list", "stats"} /\ rd.pc # "done" THEN 1 ELSE 0)

\* C16: the connections that are open are those of the insert, list and
\* stats calls in progress, one each: a call that has returned or raised
\* (Created, Duplicate, storage error), a request rejected before its insert
\* and the readiness check hold none; with no request in flight no
\* connection is open.
C16_ConnectionsClosed ==
  /\ conns = HoldingConnection
  /\ InFlight = 0 => conns = 0

\* Two requests have been through insert_message, one told Duplicate, the
\* other stopped by a storage fault, and no connection is left open.
C16_Witness ==
  /\ conns = 0
  /\ \E r1, r2 \in Reqs :
       /\ req[r1].pc = "Persisted" /\ ~req[r1].created
       /\ req[r2].pc = "Failed" /\ CorrectlySigned(r2) /\ ValidPayload(req[r2].body)

\* C17: every call of init_db, on an empty table or on one that holds
\* messages, ends with the schema present and the stored rows as they were;
\* once present the schema stays.
C17_InitIdempotent ==
  /\ [][(call.op = "none" /\ call'.op = "init") => (schema' /\ rows' = rows)]_vars
  /\ [][schema => schema']_vars

\* init_db has returned on a table that holds two messages.
C17_Witness ==
  /\ call.op = "init"
  /\ schema
  /\ Len(rows) = 2

\* The pages list_messages returns for the offsets k * limit, (k + 1) * limit,
\* ... under the filters and the limit of a, one after the other.
RECURSIVE PagesFrom(_, _, _)
PagesFrom(rs, a, k) ==
  IF k * a.limit > Len(rs) THEN <<>>
  ELSE list_messages(rs, [a EXCEPT !.offset = k * a.limit]).data \o PagesFrom(rs, a, k + 1)

\* C18: on an unchanged table the pages at offsets 0, limit, 2 * limit, ...
\* have at most limit rows each and, put one after the other, are strictly
\* ascending by (ts, message_id), so no row is repeated, and hold exactly the
\* rows the query selects; the page of a call is the part of that sequence
\* from its offset on, and is empty when the offset is at or past total.
C18_PagesPartition ==
  call.op = "list" =>
    LET a == call.args
        all == PagesFrom(rows, a, 0)
    IN /\ \A k \in 0..Len(rows) :
            Len(list_messages(rows, [a EXCEPT !.offset = k * a.limit]).data) <= a.limit
       /\ \A i, j \in 1..Len(all) : i < j => TsIdBefore(all[i], all[j])
       /\ Range(all) = {rows[i] : i \in {k \in 1..Len(rows) : Where(rows[k], a)}}
       /\ Len(all) = call.total
       /\ call.data = SubSeq(all, a.offset + 1,
                             IF a.offset + a.limit < Len(all) THEN a.offset + a.limit
                             ELSE Len(all))
       /\ a.offset >= call.total => call.data = <<>>

\* A call with limit 1 has returned the second of three pages.
C18_Witness ==
  /\ call.op = "list"
  /\ call.args.limit = 1 /\ call.args.offset = 1
  /\ call.total = 3 /\ Len(call.data) = 1

RECURSIVE SumCounts(_)
SumCounts(top) == IF top = <<>> THEN 0 ELSE Head(top).count + SumCounts(Tail(top))

\* The values of one stats result agree with each other.
StatsConsistent(st) ==
  /\ st.senders_count <= st.total_messages
  /\ SumCounts(st.messages_per_sender) <= st.total_messages
  /\ (st.first_message_ts = NoneS) <=> (st.total_messages = 0)
  /\ (st.last_message_ts = NoneS) <=> (st.total_messages = 0)

StatsReturned == rd.op = "stats" /\ rd.pc = "done" /\ rd.status = 200

\* C19 as claimed: every result stats returns is internally consistent,
\* also when inserts run concurrently with the call.
C19_StatsConsistent == StatsReturned => StatsConsistent(rd.stats)

\* C19 as amended: a result of stats is internally consistent when no insert
\* has committed since its first statement ran (the table is as long as
\* total_messages says); in every case the values are bounded by the table at
\* the return, and first/last timestamp are absent only if total_messages
\* is 0.
C19_StatsConsistentWhenQuiet ==
  StatsReturned =>
    LET st == rd.stats
    IN /\ st.total_messages = Len(rows) => StatsConsistent(st)
       /\ st.total_messages <= Len(rows)
       /\ st.senders_count <= Len(rows)
       /\ SumCounts(st.messages_per_sender) <= Len(rows)
       /\ st.first_message_ts = NoneS => st.total_messages = 0
       /\ st.last_message_ts = NoneS => st.total_messages = 0

\* stats has returned a result whose statements saw different tables: one
\* message counted, two senders.
C19_Witness ==
  /\ StatsReturned
  /\ rd.stats.total_messages = 1
  /\ rd.stats.senders_count = 2
  /\ rd.stats.first_message_ts # NoneS

\* The URL path of the request the reader slot serves.
PathOf(op) ==
  CASE op = "list" -> "/messages"
    [] op = "stats" -> "/stats"
    [] op = "ready" -> "/health/ready"
    [] OTHER -> "/"

\* C20: a request that has completed has incremented http_requests_total
\* once, under its URL path and the status of its response; so has a webhook
\* request rejected with 401 or 422, under the path /webhook.
C20_CountedOnce ==
  /\ \A r \in Reqs :
       req[r].pc \in Terminal =>
         req[r].http = << [path |-> "/webhook", status |-> req[r].status] >>
  /\ rd.pc = "done" => rd.http = << [path |-> PathOf(rd.op), status |-> rd.status] >>

====
